---- MODULE Spec2Model ----
(***************************************************************************)
(* Model of dynetx's temporal graph store (DynGraph / DynDiGraph).         *)
(*                                                                         *)
(* A graph object is the record                                            *)
(*   node          insertion order of the keys of _node / _adj (_succ)     *)
(*   nbr           insertion order of the adjacency keys, as pairs <<n,m>> *)
(*                 meaning "m is a key of _adj[n]" (_succ[n] when directed)*)
(*   adj           <<n,m>> -> the interval list _adj[n][m]['t'], <<>> when *)
(*                 m is no key of _adj[n]; an interval [s,e] is <<s,e>>    *)
(*   time_to_edge  snapshot id -> tokens <<u,v,op>> in dict order; the     *)
(*                 DOMAIN is the set of keys of the dict                   *)
(*   snapshots     snapshot id -> counter; DOMAIN = keys of the dict       *)
(*   edge_removal, directed   the two flags set by __init__                *)
(* The two adjacency entries of an undirected edge hold one datadict: an   *)
(* in-place update of the list is written through both pairs.              *)
(***************************************************************************)
EXTENDS Integers, Sequences, FiniteSets, TLC

VARIABLES node, nbr, adj, time_to_edge, snapshots, edge_removal, directed,
          last, hist, ncalls, res

vars == <<node, nbr, adj, time_to_edge, snapshots, edge_removal, directed,
          last, hist, ncalls, res>>

\* ---------------------------------------------------------------- bounds
MaxT == 2
MaxCalls == 3
MaxQueryCalls == 2

Nodes == {1, 2}
Snaps == 0..MaxT
Ends == 0..(MaxT + 1)
Pairs == Nodes \X Nodes

\* ---------------------------------------------------------------- helpers
Last(s) == s[Len(s)]

\* the elements of a sequence, as a set
Range(s) == {s[i] : i \in 1..Len(s)}

InSeq(s, x) == \E i \in 1..Len(s) : s[i] = x

Without(s, x) == SelectSeq(s, LAMBDA y : y # x)

AppendNew(s, x) == IF InSeq(s, x) THEN s ELSE Append(s, x)

\* (mutant) the interval is added after the last one instead of replacing it
SetLast_append(s, x) == Append(s, x)

\* app[-1] = x
SetLast(s, x) == [s EXCEPT ![Len(s)] = x]

\* d[k][tok] = None on the ledger: creates the key k when missing, keeps the
\* position of a token already there
AddTok(te, k, tok) ==
    IF k \in DOMAIN te
    THEN [te EXCEPT ![k] = AppendNew(te[k], tok)]
    ELSE [x \in DOMAIN te \cup {k} |-> IF x = k THEN <<tok>> ELSE te[x]]

HasTok(te, k, tok) == k \in DOMAIN te /\ InSeq(te[k], tok)

\* del d[k][tok], the caller has checked that it is there
DelTok(te, k, tok) == [te EXCEPT ![k] = Without(te[k], tok)]

\* self.snapshots[k] += by, or = by when k is a new key
Bump(sn, ks, by) ==
    [x \in DOMAIN sn \cup ks |->
        (IF x \in DOMAIN sn THEN sn[x] ELSE 0) + (IF x \in ks THEN by ELSE 0)]

\* (mutant) the datadict is stored under the pair of the call only
Aliases_oneWay(G, u, v) == {<<u, v>>}

\* the pairs whose adjacency entry is the datadict of edge (u,v)
Aliases(G, u, v) == IF G.directed THEN {<<u, v>>} ELSE {<<u, v>>, <<v, u>>}

has_edge(G, u, v) == G.adj[<<u, v>>] # <<>>

EmptyGraph(er, dir) ==
    [node |-> <<>>, nbr |-> <<>>, adj |-> [p \in Pairs |-> <<>>],
     time_to_edge |-> <<>>, snapshots |-> <<>>,
     edge_removal |-> er, directed |-> dir]

\* ---------------------------------------------------------------- add_interaction
\* (mutant) the '+' token is recorded whatever the graph's mode
RecordsPlus_always(G, u, v) == TRUE

\* The guard of the '+' token: skipped for an edge already there on a graph
\* without edge removal.
RecordsPlus(G, u, v) == ~(has_edge(G, u, v) /\ ~G.edge_removal)

\* (mutant) the start is compared with the start of the first interval
OrderingViolated_first(app, t0) == t0 < app[1][1]

\* (mutant) the comparison is off by one
OrderingViolated_offByOne(app, t0) == t0 < Last(app)[1] - 1

\* The append-only check: the start of the span against the start of the
\* last interval.
OrderingViolated(app, t0) == t0 < Last(app)[1]

\* The tail-merge of add_interaction on an existing edge: app is the edge's
\* interval list, [t0,t1] the span, te the ledger after the '+'/'-' tokens of
\* this call were recorded. Gives the list, the ledger and the exception, with
\* the updates that were made in place before the exception.
MergeTail(G, u, v, app, te, t0, t1) ==
    LET ls == Last(app)[1]
        max_end == Last(app)[2]
        plus == <<u, v, "+">>
        minus == <<u, v, "-">>
    IN  IF max_end = ls /\ t0 = ls + 1
        THEN [t |-> SetLast(app, <<ls, t1>>),
              te |-> IF HasTok(te, ls + 1, plus) THEN DelTok(te, ls + 1, plus) ELSE te,
              raised |-> "none"]
        ELSE IF OrderingViolated(app, t0)
        THEN [t |-> app, te |-> te, raised |-> "ValueError"]
        ELSE IF t0 <= max_end /\ max_end < t1
        THEN LET ext == SetLast(app, <<ls, t1>>)
             IN  IF (max_end + 1) \notin DOMAIN te
                 THEN [t |-> ext, te |-> te, raised |-> "none"]
                 ELSE IF G.edge_removal /\ ~HasTok(te, max_end + 1, minus)
                 THEN [t |-> ext, te |-> te, raised |-> "KeyError"]
                 ELSE LET te1 == IF G.edge_removal
                                 THEN DelTok(te, max_end + 1, minus) ELSE te
                      IN  IF ~HasTok(te1, t0, plus)
                          THEN [t |-> ext, te |-> te1, raised |-> "KeyError"]
                          ELSE [t |-> ext, te |-> DelTok(te1, t0, plus),
                                raised |-> "none"]
        ELSE IF max_end = t0 - 1
        THEN LET te1 == IF HasTok(te, max_end + 1, plus)
                        THEN LET d1 == DelTok(te, max_end + 1, plus)
                             IN  IF G.edge_removal
                                 THEN AddTok(IF HasTok(d1, max_end + 1, minus)
                                             THEN DelTok(d1, max_end + 1, minus)
                                             ELSE d1,
                                             t1 + 1, minus)
                                 ELSE d1
                        ELSE te
             IN  [t |-> SetLast(app, <<ls, t1>>), te |-> te1, raised |-> "none"]
        ELSE [t |-> Append(app, <<t0, t1>>), te |-> te, raised |-> "none"]

\* add_interaction(u, v, t, e): ht is "t is not None", he is "e is not None".
\* Gives the graph after the call and the exception it ended with ("none" for
\* a normal return).
add_interaction(G, u, v, ht, t, he, e) ==
    IF ~ht THEN [G |-> G, raised |-> "NetworkXError"]
    ELSE
    LET node1 == AppendNew(AppendNew(G.node, u), v)
        plus == <<u, v, "+">>
        minus == <<u, v, "-">>
        te1 == IF RecordsPlus(G, u, v)
               THEN AddTok(G.time_to_edge, t, plus)
               ELSE G.time_to_edge
        useE == he /\ G.edge_removal
        t1 == IF useE THEN e - 1 ELSE t
        te2 == IF useE THEN AddTok(te1, e, minus) ELSE te1
        m == IF has_edge(G, u, v)
             THEN MergeTail(G, u, v, G.adj[<<u, v>>], te2, t, t1)
             ELSE [t |-> << <<t, t1>> >>, te |-> te2, raised |-> "none"]
        adj1 == [p \in DOMAIN G.adj |-> IF p \in Aliases(G, u, v) THEN m.t ELSE G.adj[p]]
        sn1 == IF he THEN Bump(G.snapshots, t..t1, 1)
                     ELSE Bump(G.snapshots, {t}, 2)
        nbr1 == IF G.directed THEN AppendNew(G.nbr, <<u, v>>)
                ELSE AppendNew(AppendNew(G.nbr, <<u, v>>), <<v, u>>)
    IN  IF m.raised # "none"
        THEN [G |-> [G EXCEPT !.node = node1, !.time_to_edge = m.te, !.adj = adj1],
              raised |-> m.raised]
        ELSE [G |-> [G EXCEPT !.node = node1, !.time_to_edge = m.te, !.adj = adj1,
                              !.snapshots = sn1, !.nbr = nbr1],
              raised |-> "none"]

\* ---------------------------------------------------------------- queries
Covers(span, t) == span[1] <= t /\ t <= span[2]

\* (mutant) without edge removal the upper end is the end of the edge's last
\* interval
presence_test_ownEnd(G, u, v, t) ==
    LET spans == G.adj[<<u, v>>]
    IN  spans[1][1] <= t /\ t <= Last(spans)[2]

\* __presence_test: with edge removal, the range test on [first start, last
\* end] and then the scan; without, first start <= t <= the largest snapshot
\* id (no snapshot id at all: the test is not passed)
presence_test(G, u, v, t) ==
    LET spans == G.adj[<<u, v>>]
    IN  IF G.edge_removal
        THEN /\ spans[1][1] <= t
             /\ t <= Last(spans)[2]
             /\ \E i \in 1..Len(spans) : Covers(spans[i], t)
        ELSE /\ spans[1][1] <= t
             /\ \E m \in DOMAIN G.snapshots :
                    /\ \A k \in DOMAIN G.snapshots : k <= m
                    /\ t <= m

\* has_interaction(u, v, t) with t given
has_interaction(G, u, v, t) == has_edge(G, u, v) /\ presence_test(G, u, v, t)

RECURSIVE SortSet(_)
SortSet(S) ==
    IF S = {} THEN <<>>
    ELSE LET m == CHOOSE x \in S : \A y \in S : x <= y
         IN  <<m>> \o SortSet(S \ {m})

temporal_snapshots_ids(G) == SortSet(DOMAIN G.snapshots)

\* the snapshot ids covered by an interval of a timeline of the graph
CoveredIds(G) ==
    UNION { UNION { (G.adj[p][i][1])..(G.adj[p][i][2]) : i \in 1..Len(G.adj[p]) }
            : p \in Pairs }

\* ---------------------------------------------------------------- iteration, slicing, replay
\* interactions_iter() with no nbunch and no t: the nodes in dict order, the
\* adjacency keys of each in dict order, a neighbour skipped when it was an
\* earlier node of the iteration. A yield is <<first, second, pair>>, pair
\* naming the datadict; the directed class yields (nbr, n).
RECURSIVE interactions_iter_from(_, _)
interactions_iter_from(g, i) ==
    IF i > Len(g.node) THEN <<>>
    ELSE LET n == g.node[i]
             seen == {g.node[j] : j \in 1..(i - 1)}
             mine == SelectSeq(g.nbr, LAMBDA p : p[1] = n /\ p[2] \notin seen)
             out == [k \in 1..Len(mine) |->
                        IF g.directed
                        THEN <<mine[k][2], mine[k][1], mine[k]>>
                        ELSE <<mine[k][1], mine[k][2], mine[k]>>]
         IN  out \o interactions_iter_from(g, i + 1)

interactions_iter(g) == interactions_iter_from(g, 1)

\* interactions_iter(t=t) with no nbunch: (n, nbr) for every adjacency key
\* whose neighbour was not an earlier node of the iteration and whose timeline
\* passes the presence test at t
RECURSIVE interactions_iter_at_from(_, _, _)
interactions_iter_at_from(g, t, i) ==
    IF i > Len(g.node) THEN <<>>
    ELSE LET n == g.node[i]
             seen == {g.node[j] : j \in 1..(i - 1)}
             mine == SelectSeq(g.nbr, LAMBDA p : /\ p[1] = n
                                                 /\ p[2] \notin seen
                                                 /\ presence_test(g, n, p[2], t))
         IN  mine \o interactions_iter_at_from(g, t, i + 1)

\* interactions(): the list of the iterator, here the node pair of each tuple
interactions(g) ==
    LET ys == interactions_iter(g)
    IN  [k \in 1..Len(ys) |-> <<ys[k][1], ys[k][2]>>]

\* interactions(t=t)
interactions_at(g, t) == interactions_iter_at_from(g, t, 1)

\* the add_interaction call time_slice makes for interval [a,b] of edge (u,v)
\* and window [f_from,i_to], <<>> when the interval is skipped
SliceCall(u, v, a, b, f_from, i_to) ==
    IF i_to < a \/ f_from > b THEN <<>>
    ELSE IF f_from >= a /\ i_to <= b THEN << <<u, v, f_from, i_to>> >>
    ELSE IF a >= f_from /\ i_to <= b THEN << <<u, v, a, i_to>> >>
    ELSE IF f_from >= a /\ b <= i_to THEN << <<u, v, f_from, b>> >>
    ELSE IF f_from <= a /\ b <= i_to THEN << <<u, v, a, b>> >>
    ELSE <<>>

RECURSIVE SliceCallsOfSpans(_, _, _, _, _, _)
SliceCallsOfSpans(u, v, ts, k, f_from, i_to) ==
    IF k > Len(ts) THEN <<>>
    ELSE SliceCall(u, v, ts[k][1], ts[k][2], f_from, i_to)
             \o SliceCallsOfSpans(u, v, ts, k + 1, f_from, i_to)

RECURSIVE SliceCalls(_, _, _, _, _)
SliceCalls(g, ys, k, f_from, i_to) ==
    IF k > Len(ys) THEN <<>>
    ELSE SliceCallsOfSpans(ys[k][1], ys[k][2], g.adj[ys[k][3]], 1, f_from, i_to)
             \o SliceCalls(g, ys, k + 1, f_from, i_to)

\* calls <<u, v, t, e>> (e given) made one after the other on h; the first
\* exception ends the run
RECURSIVE AddAllWithEnd(_, _, _)
AddAllWithEnd(h, calls, k) ==
    IF k > Len(calls) THEN [G |-> h, raised |-> "none"]
    ELSE LET r == add_interaction(h, calls[k][1], calls[k][2], TRUE, calls[k][3],
                                  TRUE, calls[k][4])
         IN  IF r.raised # "none" THEN r ELSE AddAllWithEnd(r.G, calls, k + 1)

\* time_slice(t_from, t_to), hto is "t_to is not None": a graph of the same
\* class, built with the default edge_removal=True
time_slice(g, t_from, hto, t_to) ==
    LET H0 == [EmptyGraph(TRUE, g.directed) EXCEPT !.adj = [p \in DOMAIN g.adj |-> <<>>]]
        i_to == IF hto THEN t_to ELSE t_from
    IN  IF hto /\ t_to < t_from
        THEN [G |-> H0, raised |-> "ValueError"]
        ELSE AddAllWithEnd(H0, SliceCalls(g, interactions_iter(g), 1, t_from, i_to), 1)

\* stream_interactions(): the ledger's keys ascending, the tokens of each in
\* dict order, as <<u, v, op, t>>
RECURSIVE StreamOfKeys(_, _)
StreamOfKeys(te, ks) ==
    IF Len(ks) = 0 THEN <<>>
    ELSE [i \in 1..Len(te[ks[1]]) |->
             <<te[ks[1]][i][1], te[ks[1]][i][2], te[ks[1]][i][3], ks[1]>>]
         \o StreamOfKeys(te, Tail(ks))

stream_interactions(g) == StreamOfKeys(g.time_to_edge, SortSet(DOMAIN g.time_to_edge))

\* add_interaction(u, v, t=x) for x = from, from+1, ..., to-1
RECURSIVE AddRange(_, _, _, _, _)
AddRange(h, u, v, from, to) ==
    IF from >= to THEN [G |-> h, raised |-> "none"]
    ELSE LET r == add_interaction(h, u, v, TRUE, from, FALSE, 0)
         IN  IF r.raised # "none" THEN r ELSE AddRange(r.G, u, v, from + 1, to)

\* one line of parse_interactions
ParseEvent(h, ev) ==
    LET u == ev[1]
        v == ev[2]
        s == ev[4]
    IN  IF ev[3] = "+"
        THEN add_interaction(h, u, v, TRUE, s, FALSE, 0)
        ELSE IF ~has_edge(h, u, v)
        THEN [G |-> h, raised |-> "KeyError"]
        ELSE LET timestamps == h.adj[<<u, v>>]
             IN  IF Len(timestamps) > 0 /\ Last(timestamps)[2] < s
                 THEN AddRange(h, u, v, Last(timestamps)[2], s)
                 ELSE [G |-> h, raised |-> "none"]

RECURSIVE ParseEvents(_, _, _)
ParseEvents(h, evs, k) ==
    IF k > Len(evs) THEN [G |-> h, raised |-> "none"]
    ELSE LET r == ParseEvent(h, evs[k])
         IN  IF r.raised # "none" THEN r ELSE ParseEvents(r.G, evs, k + 1)

\* parse_interactions on the events of a graph: a fresh graph of the class
\* the directed flag selects
parse_interactions(evs, dir) == ParseEvents(EmptyGraph(TRUE, dir), evs, 1)

\* ---------------------------------------------------------------- snapshot format
\* number_of_interactions() with no argument: int(size()), the sum of the
\* degrees halved; an undirected edge is a key of two adjacency dicts (a
\* self-loop of one), a directed edge is counted as successor and predecessor
number_of_interactions(g) ==
    IF g.directed THEN Len(g.nbr) ELSE Len(g.nbr) \div 2

\* make_str on a node or a snapshot id, and the conversion read_snapshots is
\* given to read it back (nodetype=int, timestamptype=int)
make_str(i) == ToString(i)

int(s) == CHOOSE i \in 0..(MaxT + 1) : ToString(i) = s

\* the lines generate_snapshots yields for one interval of edge (u,v): one
\* line [u, v, s] per snapshot of the interval, fields as strings
SnapshotLines(u, v, span) ==
    IF span[1] # span[2]
    THEN [k \in 1..(span[2] + 1 - span[1]) |->
             <<make_str(u), make_str(v), make_str(span[1] + k - 1)>>]
    ELSE << <<make_str(u), make_str(v), make_str(span[1])>> >>

RECURSIVE SnapshotLinesOfSpans(_, _, _, _)
SnapshotLinesOfSpans(u, v, ts, k) ==
    IF k > Len(ts) THEN <<>>
    ELSE SnapshotLines(u, v, ts[k]) \o SnapshotLinesOfSpans(u, v, ts, k + 1)

RECURSIVE SnapshotLinesOfEdges(_, _, _)
SnapshotLinesOfEdges(g, ys, k) ==
    IF k > Len(ys) THEN <<>>
    ELSE SnapshotLinesOfSpans(ys[k][1], ys[k][2], g.adj[ys[k][3]], 1)
             \o SnapshotLinesOfEdges(g, ys, k + 1)

generate_snapshots(g) == SnapshotLinesOfEdges(g, interactions_iter(g), 1)

\* parse_snapshots on three-field lines: add_interaction(u, v, t=t, e=None)
\* for each, on a fresh graph of the class the directed flag selects
RECURSIVE ParseSnapshotLines(_, _, _)
ParseSnapshotLines(h, lines, k) ==
    IF k > Len(lines) THEN [G |-> h, raised |-> "none"]
    ELSE LET r == add_interaction(h, int(lines[k][1]), int(lines[k][2]), TRUE,
                                  int(lines[k][3]), FALSE, 0)
         IN  IF r.raised # "none" THEN r ELSE ParseSnapshotLines(r.G, lines, k + 1)

parse_snapshots(lines, dir) == ParseSnapshotLines(EmptyGraph(TRUE, dir), lines, 1)

\* ---------------------------------------------------------------- path engine
PathNodes == {1, 2, 3}

\* a graph with no node and no interaction whose nodes will be taken from ns
EmptyGraphOn(ns, er, dir) ==
    [node |-> <<>>, nbr |-> <<>>, adj |-> [p \in ns \X ns |-> <<>>],
     time_to_edge |-> <<>>, snapshots |-> <<>>,
     edge_removal |-> er, directed |-> dir]

\* neighbors(n, t) with t given (successors(n, t) on the directed class): the
\* adjacency keys of n that pass the presence test
neighbors(g, n, t) ==
    {m \in {q[2] : q \in {q \in DOMAIN g.adj : q[1] = n}} :
        has_edge(g, n, m) /\ presence_test(g, n, m, t)}

\* the degree of n at t: the neighbours present at t, on the directed class
\* the successors and the predecessors present at t
degree_at(g, n, t) ==
    IF g.directed
    THEN Cardinality(neighbors(g, n, t))
         + Cardinality({m \in {q[1] : q \in {q \in DOMAIN g.adj : q[2] = n}} :
                           has_edge(g, m, n) /\ presence_test(g, m, n, t)})
    ELSE Cardinality(neighbors(g, n, t))

\* has_node(n, t): ht is "t is not None"
has_node(g, n, ht, t) ==
    IF ~ht THEN InSeq(g.node, n)
    ELSE InSeq(g.node, n) /\ degree_at(g, n, t) > 0

\* nodes(t): ht is "t is not None"
nodes(g, ht, t) ==
    IF ~ht THEN g.node
    ELSE SelectSeq(g.node, LAMBDA n : degree_at(g, n, t) > 0)

\* ids[a:b] of Python for 0 <= a and 0 <= b
Slice(ids, a, b) ==
    LET hi == IF b < Len(ids) THEN b ELSE Len(ids)
    IN  IF a >= hi THEN <<>> ELSE SubSeq(ids, a + 1, hi)

\* list(...).index(True): the 0-based position of the first True in flags
IndexOfTrue(flags) ==
    (CHOOSE i \in 1..Len(flags) : flags[i] /\ \A j \in 1..(i - 1) : ~flags[j]) - 1

\* The snapshot ids temporal_dag iterates on, for ids non-empty and a window
\* [start,end] that passed the range check.
DagWindow(ids, start, end) ==
    LET s == IndexOfTrue([i \in 1..Len(ids) |-> ids[i] >= start])
        e == IF end = Last(ids) THEN end
             ELSE IndexOfTrue([i \in 1..Len(ids) |-> ids[i] > end])
    IN  Slice(ids, s, e)

\* The temporal copy f"{n}_{tid}" of node n is the pair <<n, tid>>: nodes and
\* snapshot ids are integers, which the split at "_" gives back.
\* One round of the loop of temporal_dag: st holds the active copies (the root
\* u is always active), the edges, the sources and the targets so far.
DagRound(g, u, hv, v, st, tid) ==
    LET nbrsOf(n) == {<<m, tid>> : m \in neighbors(g, n, tid)}
        rootN == nbrsOf(u)
        allN == rootN \cup UNION {nbrsOf(an[1]) : an \in st.active}
        hits == IF hv THEN allN \cap {<<v, tid>>} ELSE allN
        to_remove == {an \in st.active : nbrsOf(an[1]) = {}}
        fromRoot == {<< <<u, tid>>, n >> : n \in rootN}
        fromCopies == UNION {{<<an, n>> : n \in nbrsOf(an[1])} : an \in st.active}
    IN  [active |-> (st.active \cup allN) \ to_remove,
         edges |-> st.edges \cup fromRoot \cup fromCopies,
         sources |-> IF rootN = {} THEN st.sources ELSE st.sources \cup {<<u, tid>>},
         targets |-> st.targets \cup hits]

RECURSIVE DagRounds(_, _, _, _, _, _, _)
DagRounds(g, u, hv, v, st, ids, k) ==
    IF k > Len(ids) THEN st
    ELSE DagRounds(g, u, hv, v, DagRound(g, u, hv, v, st, ids[k]), ids, k + 1)

EmptyDag == [active |-> {}, edges |-> {}, sources |-> {}, targets |-> {}]

\* temporal_dag(G, u, v, start, end): hv, hs, he are "v / start / end is not
\* None". Gives the edges of the DAG, the sources and the targets, and the
\* snapshot ids the loop went through.
temporal_dag(g, u, hv, v, hs, start, he, end) ==
    LET ids == temporal_snapshots_ids(g)
    IN  IF Len(ids) = 0 THEN [dag |-> EmptyDag, ids |-> <<>>, raised |-> "none"]
        ELSE LET end1 == IF he THEN end ELSE Last(ids)
                 start1 == IF hs THEN start ELSE ids[1]
             IN  IF start1 < ids[1] \/ start1 > end1 \/ end1 > Last(ids)
                        \/ start1 > Last(ids)
                 THEN [dag |-> EmptyDag, ids |-> <<>>, raised |-> "ValueError"]
                 ELSE [dag |-> DagRounds(g, u, hv, v, EmptyDag,
                                         DagWindow(ids, start1, end1), 1),
                       ids |-> DagWindow(ids, start1, end1),
                       raised |-> "none"]

\* nx.all_simple_paths(DAG, x, y) as sequences of copies; a search from x
\* stops at y and never re-enters a copy it has visited
RECURSIVE SimplePathsFrom(_, _, _, _)
SimplePathsFrom(E, x, y, seen) ==
    IF x = y THEN {<<x>>}
    ELSE UNION {{<<x>> \o p : p \in SimplePathsFrom(E, ed[2], y, seen \cup {ed[2]})}
                   : ed \in {ed \in E : ed[1] = x /\ ed[2] \notin seen}}

\* For a source that is also the target the library gives either no path
\* (networkx up to 3.2) or the one-node path (later releases): singleton
\* says which.
all_simple_paths(E, x, y, singleton) ==
    IF x = y THEN (IF singleton THEN {<<x>>} ELSE {})
    ELSE SimplePathsFrom(E, x, y, {x})

\* the interactions (from, to, snapshot) of a path of copies
DecodePath(p) ==
    [i \in 1..(Len(p) - 1) |-> <<p[i][1], p[i + 1][1], p[i + 1][2]>>]

\* time_respecting_paths(G, u, v, start, end) with sample=1: the paths as a
\* set (the order and the repetitions of the list are left out)
time_respecting_paths(g, u, hv, v, hs, start, he, end, singleton) ==
    IF ~has_node(g, u, hs, start) THEN [paths |-> {}, raised |-> "none"]
    ELSE LET d == temporal_dag(g, u, hv, v, hs, start, he, end)
         IN  IF d.raised # "none" THEN [paths |-> {}, raised |-> d.raised]
             ELSE [paths |-> UNION {{DecodePath(p) :
                                       p \in all_simple_paths(d.dag.edges, x, y, singleton)}
                                    : <<x, y>> \in d.dag.sources \X d.dag.targets},
                   raised |-> "none"]

\* all_time_respecting_paths(G, start, end, min_t) with sample=1: the nodes
\* ns[k..] in turn, acc the mapping (u,v) -> paths so far. Every path of u
\* stores all the paths of u under (u, its last 'to'); path[-1] of an empty
\* path raises IndexError.
RECURSIVE AllPathsOfNodes(_, _, _, _, _, _, _, _, _)
AllPathsOfNodes(g, ns, k, hs, start, he, end, singleton, acc) ==
    IF k > Len(ns) THEN [res |-> acc, raised |-> "none"]
    ELSE LET u == ns[k]
             r == time_respecting_paths(g, u, FALSE, 0, hs, start, he, end, singleton)
             keys == {<<u, Last(p)[2]>> : p \in r.paths}
         IN  IF r.raised # "none" THEN [res |-> acc, raised |-> r.raised]
             ELSE IF <<>> \in r.paths THEN [res |-> acc, raised |-> "IndexError"]
             ELSE AllPathsOfNodes(g, ns, k + 1, hs, start, he, end, singleton,
                      [q \in DOMAIN acc \cup keys |->
                          IF q \in keys THEN r.paths ELSE acc[q]])

all_time_respecting_paths(g, hs, start, he, end, hm, min_t, singleton) ==
    AllPathsOfNodes(g, nodes(g, hm, min_t), 1, hs, start, he, end, singleton, <<>>)

\* ---------------------------------------------------------------- path annotation
path_length(path) == Len(path)

path_duration(path) == Last(path)[3] - path[1][3]

\* (mutant) a path that ties with the best value is not kept
KeepMin_first(st, val, path) ==
    IF ~st.has \/ val < st.best
    THEN [has |-> TRUE, best |-> val, kept |-> <<path>>]
    ELSE st

\* One step of the scan of annotate_paths for one category: st.has is "the
\* best value is not None", st.kept the paths kept so far.
KeepMin(st, val, path) ==
    IF ~st.has \/ val < st.best
    THEN [has |-> TRUE, best |-> val, kept |-> <<path>>]
    ELSE IF val = st.best
    THEN [st EXCEPT !.kept = Append(@, path)]
    ELSE st

NoMin == [has |-> FALSE, best |-> 0, kept |-> <<>>]

RECURSIVE AnnotateScan(_, _, _)
AnnotateScan(paths, k, st) ==
    IF k > Len(paths) THEN st
    ELSE AnnotateScan(paths, k + 1,
             [shortest |-> KeepMin(st.shortest, path_length(paths[k]), paths[k]),
              fastest |-> KeepMin(st.fastest, path_duration(paths[k]), paths[k]),
              foremost |-> KeepMin(st.foremost, Last(paths[k])[3], paths[k])])

\* the keys of {tuple(path): ... for path in ps}: ps without repetitions, in
\* the order of the first occurrences
RECURSIVE DictKeys(_)
DictKeys(ps) ==
    IF Len(ps) = 0 THEN <<>>
    ELSE LET front == DictKeys(SubSeq(ps, 1, Len(ps) - 1))
         IN  AppendNew(front, Last(ps))

\* (mutant) no secondary selection
fastest_shortest_all(shortest) == DictKeys(shortest)

\* the paths of minimum duration among the shortest
fastest_shortest(shortest) ==
    LET keys == DictKeys(shortest)
        minval == CHOOSE m \in {path_duration(keys[i]) : i \in 1..Len(keys)} :
                      \A i \in 1..Len(keys) : m <= path_duration(keys[i])
    IN  SelectSeq(keys, LAMBDA x : path_duration(x) = minval)

\* the paths of minimum length among the fastest
shortest_fastest(fastest) ==
    LET keys == DictKeys(fastest)
        minval == CHOOSE m \in {path_length(keys[i]) : i \in 1..Len(keys)} :
                      \A i \in 1..Len(keys) : m <= path_length(keys[i])
    IN  SelectSeq(keys, LAMBDA x : path_length(x) = minval)

\* annotate_paths(paths) for a non-empty list of non-empty paths
annotate_paths(paths) ==
    LET st == AnnotateScan(paths, 1, [shortest |-> NoMin, fastest |-> NoMin,
                                      foremost |-> NoMin])
    IN  [shortest |-> st.shortest.kept,
         fastest |-> st.fastest.kept,
         foremost |-> st.foremost.kept,
         fastest_shortest |-> fastest_shortest(st.shortest.kept),
         shortest_fastest |-> shortest_fastest(st.fastest.kept)]

\* ---------------------------------------------------------------- conformity engine
\* Scores are computed exactly, as fractions <<n, d>> with d > 0 in lowest
\* terms (the rounding of floating point is left out).
Abs(i) == IF i < 0 THEN -i ELSE i

RECURSIVE Gcd(_, _)
Gcd(a, b) == IF b = 0 THEN a ELSE Gcd(b, a % b)

Frac(n, d) ==
    LET k == Gcd(Abs(n), Abs(d))
    IN  IF d < 0 THEN <<(-n) \div k, (-d) \div k>> ELSE <<n \div k, d \div k>>

FAdd(a, b) == Frac(a[1] * b[2] + b[1] * a[2], a[2] * b[2])

FMul(a, b) == Frac(a[1] * b[1], a[2] * b[2])

FDiv(a, b) == Frac(a[1] * b[2], a[2] * b[1])

FLeq(a, b) == a[1] * b[2] <= b[1] * a[2]

RECURSIVE FSum(_, _)
FSum(f, S) ==
    IF S = {} THEN <<0, 1>>
    ELSE LET x == CHOOSE x \in S : TRUE
         IN  FAdd(f[x], FSum(f, S \ {x}))

\* dict.values() as a set
Values(f) == {f[x] : x \in DOMAIN f}

\* d ** alpha for an integer alpha >= 0
RECURSIVE Pow(_, _)
Pow(d, alpha) == IF alpha = 0 THEN 1 ELSE d * Pow(d, alpha - 1)

\* "%.2f" % alpha for an integer alpha
Format2(alpha) == ToString(alpha) \o ".00"

\* a set as a list, in some order
RECURSIVE SeqOf(_)
SeqOf(S) ==
    IF S = {} THEN <<>>
    ELSE LET x == CHOOSE x \in S : TRUE
         IN  <<x>> \o SeqOf(S \ {x})

\* __remap_path_distances: each node's temporal distance replaced by its
\* rank among the distinct values, from 1
remap_path_distances(td) ==
    [k \in DOMAIN td |-> Cardinality({td[x] : x \in {x \in DOMAIN td : td[x] <= td[k]}})]

\* __distance with no hierarchy given
distance == <<-1, 1>>

\* the factor of one label in __label_frequency: attr gives the label's
\* value of each node, ns the nodes at the distance considered
LabelFactor(g, u, ns, attr, t_dist) ==
    LET sgn == [v \in ns |->
                   LET v_neigh == neighbors(g, v, t_dist[v])
                       same == Cardinality({x \in v_neigh : attr[x] = attr[v]})
                       f_label == IF Cardinality(v_neigh) > 0 /\ same > 0
                                  THEN Frac(same, Cardinality(v_neigh))
                                  ELSE <<1, 1>>
                   IN  FMul(IF attr[u] = attr[v] THEN <<1, 1>> ELSE distance, f_label)]
    IN  FDiv(FSum(sgn, ns), <<Cardinality(ns), 1>>)

\* __label_frequency for the labels of one profile (static labels)
RECURSIVE label_frequency(_, _, _, _, _, _)
label_frequency(g, u, ns, profile, attrs, t_dist) ==
    IF Len(profile) = 0 THEN <<1, 1>>
    ELSE FMul(LabelFactor(g, u, ns, attrs[profile[1]], t_dist),
              label_frequency(g, u, ns, Tail(profile), attrs, t_dist))

\* the norm of __normalize for one damping factor
Norm(max_dist, alpha) ==
    FSum([d \in 1..max_dist |-> <<1, Pow(d, alpha)>>], 1..max_dist)

\* __normalize for one damping factor and one entry
NormalizeStep(score, max_dist, alpha) == FDiv(score, Norm(max_dist, alpha))

\* combinations(labels, i) for i = 1..profile_size, for up to two labels
Profiles(labels, profile_size) ==
    [i \in 1..Len(labels) |-> <<labels[i]>>]
        \o (IF profile_size >= 2 /\ Len(labels) = 2 THEN <<labels>> ELSE <<>>)

\* "_".join(profile)
ProfileName(profile) ==
    IF Len(profile) = 1 THEN profile[1] ELSE profile[1] \o "_" \o profile[2]

\* The score of node u under the key and the profile after the loops of
\* delta_conformity: one addition and one normalisation for every damping
\* factor that is written under the key. rank gives the hop rank of the nodes
\* u reaches, t_dist their temporal distance.
RECURSIVE ScoreOf(_, _, _, _, _, _, _, _, _)
ScoreOf(g, u, key, profile, attrs, alphas, rank, t_dist, k) ==
    LET dists == Values(rank)
        partial(alpha) ==
            FSum([d \in dists |->
                     FDiv(label_frequency(g, u, {v \in DOMAIN rank : rank[v] = d},
                                          profile, attrs, t_dist),
                          <<Pow(d, alpha), 1>>)], dists)
    IN  IF k = 0 THEN <<0, 1>>
        ELSE LET before == ScoreOf(g, u, key, profile, attrs, alphas, rank, t_dist, k - 1)
             IN  IF Format2(alphas[k]) = key
                 THEN FAdd(before, partial(alphas[k]))
                 ELSE before

RECURSIVE Normalized(_, _, _, _, _)
Normalized(score, key, alphas, max_dist, k) ==
    IF k = 0 THEN score
    ELSE LET before == Normalized(score, key, alphas, max_dist, k - 1)
         IN  IF Format2(alphas[k]) = key
             THEN NormalizeStep(before, max_dist, alphas[k])
             ELSE before

\* delta_conformity after the slice g is made, up to the search of the paths
\* between the snapshot ids tids of g: None (none) when there is no id
PathsOfSlice(g, tids, start, delta, singleton) ==
    IF Len(tids) = 0
    THEN [g |-> g, raised |-> "none", none |-> TRUE, sp |-> <<>>]
    ELSE LET mid == Last(tids)
             mmid == tids[1]
             lo == IF start > mmid THEN start ELSE mmid
             hi == IF mid < delta + start THEN mid ELSE delta + start
         IN  [g |-> g, raised |-> "none", none |-> FALSE,
              sp |-> all_time_respecting_paths(g, TRUE, lo, TRUE, hi, TRUE, mmid, singleton)]

\* The part of delta_conformity that depends on the graph and the window
\* only: the slice g of dg on [start, start + delta], and the paths sp
\* searched in it when it has snapshot ids.
ConformitySlice(sl, start, delta, singleton) ==
    IF sl.raised # "none"
    THEN [g |-> sl.G, raised |-> sl.raised, none |-> FALSE, sp |-> <<>>]
    ELSE PathsOfSlice(sl.G, temporal_snapshots_ids(sl.G), start, delta, singleton)

ConformityPaths(dg, start, delta, singleton) ==
    ConformitySlice(time_slice(dg, start, TRUE, start + delta), start, delta, singleton)

\* t_distances of delta_conformity: for every source u and every node v filed
\* under (u, v), the earliest arrival among the paths of the chosen type
TDistances(sp, path_type) ==
    [u \in {k[1] : k \in DOMAIN sp} |->
        [v \in {k[2] : k \in {k \in DOMAIN sp : k[1] = u}} |->
            LET ss == {Last(x)[3] :
                          x \in Range(annotate_paths(SeqOf(sp[<<u, v>>]))[path_type])}
            IN  CHOOSE m \in ss : \A y \in ss : m <= y]]

\* the score of one node from the hop ranks of the nodes it reaches
ScoreOfRanks(g, u, key, profile, attrs, alphas, rank, t_dist) ==
    Normalized(ScoreOf(g, u, key, profile, attrs, alphas, rank, t_dist, Len(alphas)),
               key, alphas,
               CHOOSE m \in Values(rank) : \A d \in Values(rank) : d <= m,
               Len(alphas))

\* the score of one node: 0 when no distance is known for it
NodeScore(g, u, key, profile, attrs, alphas, t_distances) ==
    IF u \notin DOMAIN t_distances THEN <<0, 1>>
    ELSE ScoreOfRanks(g, u, key, profile, attrs, alphas,
                      remap_path_distances(t_distances[u]), t_distances[u])

\* the scores of delta_conformity for the nodes ns present at start
ScoresOfNodes(g, ns, t_distances, alphas, profiles, attrs) ==
    [q \in {Format2(alphas[i]) : i \in 1..Len(alphas)}
           \X {ProfileName(profiles[i]) : i \in 1..Len(profiles)}
           \X ns |->
        NodeScore(g, q[3], q[1],
                  profiles[CHOOSE i \in 1..Len(profiles) : ProfileName(profiles[i]) = q[2]],
                  attrs, alphas, t_distances)]

\* delta_conformity from the validation of its arguments on, given the slice
\* and the paths cp of ConformityPaths. The result is None (none), an
\* exception, or the scores as a function of <<key of alpha, profile name,
\* node>>.
ConformityScores(cp, start, alphas, labels, profile_size, attrs, path_type) ==
    IF profile_size > Len(labels) \/ Len(alphas) < 1 \/ Len(labels) < 1
    THEN [none |-> FALSE, scores |-> <<>>, raised |-> "ValueError"]
    ELSE IF cp.none \/ cp.raised # "none" \/ cp.sp.raised # "none"
    THEN [none |-> cp.none, scores |-> <<>>,
          raised |-> IF cp.none \/ cp.raised # "none" THEN cp.raised ELSE cp.sp.raised]
    ELSE [none |-> FALSE, raised |-> "none",
          scores |-> ScoresOfNodes(cp.g, Range(nodes(cp.g, TRUE, start)),
                                   TDistances(cp.sp.res, path_type),
                                   alphas, Profiles(labels, profile_size), attrs)]

\* delta_conformity(dg, start, delta, alphas, labels, profile_size,
\* path_type) with no hierarchy and static labels: attrs gives, for each
\* label, its value on each node.
delta_conformity(dg, start, delta, alphas, labels, profile_size, attrs, path_type, singleton) ==
    ConformityScores(ConformityPaths(dg, start, delta, singleton),
                     start, alphas, labels, profile_size, attrs, path_type)

\* one round of the loop of sliding_delta_conformity, dconf being the result
\* of delta_conformity for t: calls holds the snapshot ids it was invoked
\* for, recs the results that were not None, each with the id t + delta it is
\* recorded under
SlidingRound(st, t, delta, last_tid, dconf) ==
    IF t + delta < last_tid
    THEN [calls |-> Append(st.calls, t),
          recs |-> IF dconf.raised = "none" /\ ~dconf.none
                   THEN Append(st.recs, <<t + delta, dconf.scores>>)
                   ELSE st.recs,
          raised |-> dconf.raised]
    ELSE st

\* round k of the loop after the rounds before it gave st; a raised exception
\* ends the loop
SlidingAfter(st, cps, tids, k, delta, alphas, labels, profile_size, attrs, path_type) ==
    IF st.raised # "none" THEN st
    ELSE SlidingRound(st, tids[k], delta, Last(tids),
                      ConformityScores(cps[tids[k]], tids[k], alphas, labels, profile_size,
                                       attrs, path_type))

\* the first k rounds of the loop; cps[t] is ConformityPaths for the window
\* that starts at t
RECURSIVE SlidingRounds(_, _, _, _, _, _, _, _, _)
SlidingRounds(cps, tids, k, delta, alphas, labels, profile_size, attrs, path_type) ==
    IF k = 0 THEN [calls |-> <<>>, recs |-> <<>>, raised |-> "none"]
    ELSE SlidingAfter(SlidingRounds(cps, tids, k - 1, delta, alphas, labels, profile_size,
                                    attrs, path_type),
                      cps, tids, k, delta, alphas, labels, profile_size, attrs, path_type)

\* the list kept for one <<key of alpha, profile name, node>>
RECURSIVE SlidingEntries(_, _, _)
SlidingEntries(recs, q, k) ==
    IF k > Len(recs) THEN <<>>
    ELSE (IF q \in DOMAIN recs[k][2] THEN <<<<recs[k][1], recs[k][2][q]>>>> ELSE <<>>)
             \o SlidingEntries(recs, q, k + 1)

\* the value sliding_delta_conformity returns after its loop
SlidingResult(st) ==
    [calls |-> st.calls,
     seq |-> [q \in UNION {DOMAIN st.recs[i][2] : i \in 1..Len(st.recs)} |->
                 SlidingEntries(st.recs, q, 1)],
     raised |-> st.raised]

\* the windows sliding_delta_conformity can ask for
SlidingPaths(dg, delta, singleton) ==
    [t \in DOMAIN dg.snapshots |-> ConformityPaths(dg, t, delta, singleton)]

\* sliding_delta_conformity from its loop on, given SlidingPaths
SlidingScores(cps, tids, delta, alphas, labels, profile_size, attrs, path_type) ==
    SlidingResult(SlidingRounds(cps, tids, Len(tids), delta, alphas, labels, profile_size,
                                attrs, path_type))

\* sliding_delta_conformity(dg, delta, alphas, labels, profile_size, path_type)
sliding_delta_conformity(dg, delta, alphas, labels, profile_size, attrs, path_type, singleton) ==
    SlidingScores(SlidingPaths(dg, delta, singleton), temporal_snapshots_ids(dg),
                  delta, alphas, labels, profile_size, attrs, path_type)

\* ---------------------------------------------------------------- snapshot counts
\* sum(self.degree(t=t).values()): the degrees at t of the nodes from the
\* k-th on
RECURSIVE DegreeSum(_, _, _)
DegreeSum(g, t, k) ==
    IF k > Len(g.node) THEN 0
    ELSE degree_at(g, g.node[k], t) + DegreeSum(g, t, k + 1)

\* size(t): the sum of the degrees at t halved, cut to an integer
size(g, t) == DegreeSum(g, t, 1) \div 2

\* number_of_interactions(t=t) with no u, v
number_of_interactions_at(g, t) == size(g, t)

\* interactions_per_snapshots(t=t): the counter of t halved by a true
\* division (a fraction <<n, d>>), 0 for a t that is no snapshot id
interactions_per_snapshots(g, t) ==
    IF t \in DOMAIN g.snapshots THEN Frac(g.snapshots[t], 2) ELSE <<0, 1>>

\* ---------------------------------------------------------------- state machine
G == [node |-> node, nbr |-> nbr, adj |-> adj, time_to_edge |-> time_to_edge,
      snapshots |-> snapshots, edge_removal |-> edge_removal,
      directed |-> directed]

NoCall == [op |-> "init", u |-> 0, v |-> 0, ht |-> FALSE, t |-> 0,
           he |-> FALSE, e |-> 0, raised |-> "none"]

\* res holds the graph a query built from the store as it is now (time_slice,
\* parse_interactions over stream_interactions), and how the query ended
NoRes == [kind |-> "none", t_from |-> 0, hto |-> FALSE, t_to |-> 0,
          H |-> EmptyGraph(TRUE, FALSE), raised |-> "none"]

\* hist records what the calls so far were like: normal (none raised), spans
\* (every e given was > t), ordered (no start was smaller than the start of
\* the last interval of its edge)
Init ==
    /\ edge_removal \in BOOLEAN
    /\ directed \in BOOLEAN
    /\ node = <<>>
    /\ nbr = <<>>
    /\ adj = [p \in Pairs |-> <<>>]
    /\ time_to_edge = <<>>
    /\ snapshots = <<>>
    /\ last = NoCall
    /\ hist = [normal |-> TRUE, spans |-> TRUE, ordered |-> TRUE]
    /\ ncalls = 0
    /\ res = NoRes

\* the call add_interaction(u, v, t, e) has a start before the start of the
\* last interval of the edge (u,v) of graph g
StartsBeforeTail(g, u, v, ht, t) ==
    ht /\ has_edge(g, u, v) /\ t < Last(g.adj[<<u, v>>])[1]

AddInteraction(u, v, ht, t, he, e) ==
    /\ ncalls < MaxCalls
    /\ LET r == add_interaction(G, u, v, ht, t, he, e)
       IN  /\ node' = r.G.node
           /\ nbr' = r.G.nbr
           /\ adj' = r.G.adj
           /\ time_to_edge' = r.G.time_to_edge
           /\ snapshots' = r.G.snapshots
           /\ last' = [op |-> "add_interaction", u |-> u, v |-> v, ht |-> ht,
                       t |-> t, he |-> he, e |-> e, raised |-> r.raised]
           /\ hist' = [normal |-> hist.normal /\ r.raised = "none",
                       spans |-> hist.spans /\ (he => e > t),
                       ordered |-> hist.ordered /\ ~StartsBeforeTail(G, u, v, ht, t)]
    /\ ncalls' = ncalls + 1
    /\ res' = NoRes
    /\ UNCHANGED <<edge_removal, directed>>

store == <<node, nbr, adj, time_to_edge, snapshots, edge_removal, directed,
           last, hist, ncalls>>

TimeSlice(t_from, hto, t_to) ==
    /\ res.kind = "none"
    /\ LET r == time_slice(G, t_from, hto, t_to)
       IN  res' = [kind |-> "time_slice", t_from |-> t_from, hto |-> hto,
                   t_to |-> t_to, H |-> r.G, raised |-> r.raised]
    /\ UNCHANGED store

Replay ==
    /\ res.kind = "none"
    /\ LET r == parse_interactions(stream_interactions(G), directed)
       IN  res' = [kind |-> "replay", t_from |-> 0, hto |-> FALSE, t_to |-> 0,
                   H |-> r.G, raised |-> r.raised]
    /\ UNCHANGED store

SnapshotRoundTrip ==
    /\ res.kind = "none"
    /\ LET r == parse_snapshots(generate_snapshots(G), directed)
       IN  res' = [kind |-> "snapshots", t_from |-> 0, hto |-> FALSE, t_to |-> 0,
                   H |-> r.G, raised |-> r.raised]
    /\ UNCHANGED store

\* a call with t and maybe e (a malformed span is e = t), or one without t
Next ==
    \/ \E u \in Nodes, v \in Nodes, t \in Snaps, he \in BOOLEAN, e \in Ends :
        /\ (IF he THEN e >= t ELSE e = 0)
        /\ AddInteraction(u, v, TRUE, t, he, e)
    \/ \E u \in Nodes, v \in Nodes : AddInteraction(u, v, FALSE, 0, FALSE, 0)

Spec == Init /\ [][Next]_vars

\* the store grown by a few calls, then queried
NextQuery ==
    \/ (ncalls < MaxQueryCalls /\ Next)
    \/ \E a \in Snaps, b \in Snaps : TimeSlice(a, TRUE, b)
    \/ \E a \in Snaps : TimeSlice(a, FALSE, 0)
    \/ Replay
    \/ SnapshotRoundTrip

SpecQuery == Init /\ [][NextQuery]_vars

\* ---------------------------------------------------------------- path queries
MaxPathCalls == 2

InitPaths ==
    /\ edge_removal \in BOOLEAN
    /\ directed \in BOOLEAN
    /\ node = <<>>
    /\ nbr = <<>>
    /\ adj = [p \in PathNodes \X PathNodes |-> <<>>]
    /\ time_to_edge = <<>>
    /\ snapshots = <<>>
    /\ last = NoCall
    /\ hist = [normal |-> TRUE, spans |-> TRUE, ordered |-> TRUE]
    /\ ncalls = 0
    /\ res = NoRes

TimeRespectingPaths(u, hv, v, hs, start, he, end, singleton) ==
    /\ res.kind = "none"
    /\ LET r == time_respecting_paths(G, u, hv, v, hs, start, he, end, singleton)
       IN  res' = [kind |-> "paths", u |-> u, hv |-> hv, v |-> v, hs |-> hs,
                   start |-> start, he |-> he, end |-> end,
                   paths |-> r.paths, raised |-> r.raised]
    /\ UNCHANGED store

AllTimeRespectingPaths(hs, start, he, end, hm, min_t, singleton) ==
    /\ res.kind = "none"
    /\ LET r == all_time_respecting_paths(G, hs, start, he, end, hm, min_t, singleton)
       IN  res' = [kind |-> "all_paths", hs |-> hs, start |-> start, he |-> he,
                   end |-> end, hm |-> hm, min_t |-> min_t,
                   res |-> r.res, raised |-> r.raised]
    /\ UNCHANGED store

\* a graph of three nodes grown by a few calls: an undirected edge is named
\* smaller node first; e is given only with edge removal, as it is ignored
\* without
GrowPathGraph ==
    /\ ncalls < MaxPathCalls
    /\ res.kind = "none"
    /\ \E u \in PathNodes, v \in PathNodes, t \in Snaps, he \in BOOLEAN, e \in Ends :
        /\ u # v
        /\ (directed \/ u < v)
        /\ (IF he THEN edge_removal /\ e > t ELSE e = 0)
        /\ AddInteraction(u, v, TRUE, t, he, e)

\* the graph grown, then one query from a node: with no window, or with a
\* window [a,b], a <= b
NextPaths ==
    \/ GrowPathGraph
    \/ /\ res.kind = "none"
       /\ \E u \in PathNodes, hv \in BOOLEAN, v \in PathNodes, singleton \in BOOLEAN :
           /\ (hv \/ v = u)
           /\ \/ TimeRespectingPaths(u, hv, v, FALSE, 0, FALSE, 0, singleton)
              \/ \E a \in Snaps, b \in Snaps :
                     a <= b /\ TimeRespectingPaths(u, hv, v, TRUE, a, TRUE, b, singleton)

SpecPaths == InitPaths /\ [][NextPaths]_vars

\* the graph grown, then one query over all the nodes, or over the nodes
\* present at min_t
NextAllPaths ==
    \/ GrowPathGraph
    \/ /\ res.kind = "none"
       /\ \E hm \in BOOLEAN, min_t \in Snaps, singleton \in BOOLEAN :
           /\ (hm \/ min_t = 0)
           /\ \/ AllTimeRespectingPaths(FALSE, 0, FALSE, 0, hm, min_t, singleton)
              \/ \E a \in Snaps, b \in Snaps :
                     a <= b /\ AllTimeRespectingPaths(TRUE, a, TRUE, b, hm, min_t, singleton)

SpecAllPaths == InitPaths /\ [][NextAllPaths]_vars

\* ---------------------------------------------------------------- temporal DAG queries
TemporalDag(u, hv, v, hs, start, he, end) ==
    /\ res.kind = "none"
    /\ \E r \in {temporal_dag(G, u, hv, v, hs, start, he, end)} :
           res' = [kind |-> "dag", u |-> u, hs |-> hs, start |-> start, he |-> he,
                   end |-> end, tids |-> temporal_snapshots_ids(G),
                   ids |-> r.ids, edges |-> r.dag.edges, raised |-> r.raised]
    /\ UNCHANGED store

\* a self-loop added to the graph
GrowLoop ==
    /\ ncalls < MaxPathCalls
    /\ res.kind = "none"
    /\ \E u \in PathNodes, t \in Snaps, he \in BOOLEAN, e \in Ends :
        /\ (IF he THEN edge_removal /\ e > t ELSE e = 0)
        /\ AddInteraction(u, u, TRUE, t, he, e)

\* the graph grown, then one DAG built from a node: with no window, with a
\* start only, or with a window [a,b], a <= b
NextDag ==
    \/ GrowPathGraph
    \/ GrowLoop
    \/ /\ res.kind = "none"
       /\ \E u \in PathNodes, hv \in BOOLEAN, v \in PathNodes :
           /\ (hv \/ v = u)
           /\ \/ TemporalDag(u, hv, v, FALSE, 0, FALSE, 0)
              \/ \E a \in Snaps : TemporalDag(u, hv, v, TRUE, a, FALSE, 0)
              \/ \E a \in Snaps, b \in Snaps :
                     a <= b /\ TemporalDag(u, hv, v, TRUE, a, TRUE, b)

SpecDag == InitPaths /\ [][NextDag]_vars

\* ---------------------------------------------------------------- annotation of a list of paths
MaxPaths == 3

\* paths from node 1 to node 2 with non-decreasing snapshots: the direct ones,
\* those through node 3 and those that come back to 1 first
PathPool ==
    {<< <<1, 2, t>> >> : t \in Snaps}
    \cup {<< <<1, 3, a>>, <<3, 2, b>> >> : <<a, b>> \in {q \in Snaps \X Snaps : q[1] <= q[2]}}
    \cup {<< <<1, 3, a>>, <<3, 1, a>>, <<1, 2, b>> >> : <<a, b>> \in {q \in Snaps \X Snaps : q[1] <= q[2]}}

\* a list of paths is handed over, one path after the other
InitAnnotate ==
    /\ edge_removal = TRUE
    /\ directed = FALSE
    /\ node = <<>>
    /\ nbr = <<>>
    /\ adj = [p \in PathNodes \X PathNodes |-> <<>>]
    /\ time_to_edge = <<>>
    /\ snapshots = <<>>
    /\ last = NoCall
    /\ hist = [normal |-> TRUE, spans |-> TRUE, ordered |-> TRUE]
    /\ ncalls = 0
    /\ res = [kind |-> "input", paths |-> <<>>]

GivePath(p) ==
    /\ res.kind = "input"
    /\ Len(res.paths) < MaxPaths
    /\ res' = [kind |-> "input", paths |-> Append(res.paths, p)]
    /\ UNCHANGED store

AnnotatePaths ==
    /\ res.kind = "input"
    /\ Len(res.paths) > 0
    /\ res' = [kind |-> "annotated", paths |-> res.paths,
               annotated |-> annotate_paths(res.paths)]
    /\ UNCHANGED store

NextAnnotate ==
    \/ \E p \in PathPool : GivePath(p)
    \/ AnnotatePaths

SpecAnnotate == InitAnnotate /\ [][NextAnnotate]_vars

\* ---------------------------------------------------------------- conformity queries
\* A graph made by DynGraph() is grown as for the path queries; every node
\* carries the labels "a" and "b". One conformity query is then made.
MaxAlpha == 2

InitConformity ==
    /\ edge_removal = TRUE
    /\ directed = FALSE
    /\ node = <<>>
    /\ nbr = <<>>
    /\ adj = [p \in PathNodes \X PathNodes |-> <<>>]
    /\ time_to_edge = <<>>
    /\ snapshots = <<>>
    /\ last = NoCall
    /\ hist = [normal |-> TRUE, spans |-> TRUE, ordered |-> TRUE]
    /\ ncalls = 0
    /\ res = NoRes

AlphaLists == {<<1>>} \cup {<<1, a>> : a \in 1..MaxAlpha}

LabelLists == {<<"a">>, <<"a", "b">>}

LabelValues ==
    {[l \in {"a", "b"} |-> [n \in PathNodes |-> "x"]],
     [l \in {"a", "b"} |-> [n \in PathNodes |-> IF l = "a" /\ n = 1 THEN "x" ELSE "y"]]}

PathTypes == {"shortest", "foremost"}

\* delta_conformity(G, start, delta, ...): the slice and its paths are
\* computed once for the window, the scores for every choice of the other
\* arguments
DeltaConformity(start, delta, singleton) ==
    /\ res.kind = "none"
    /\ \E cp \in {ConformityPaths(G, start, delta, singleton)} :
           \E alphas \in AlphaLists, labels \in LabelLists, profile_size \in 1..2,
              attrs \in LabelValues, path_type \in PathTypes :
           \E r \in {ConformityScores(cp, start, alphas, labels, profile_size,
                                      attrs, path_type)} :
               res' = [kind |-> "conformity", start |-> start, delta |-> delta,
                       alphas |-> alphas, labels |-> labels,
                       profile_size |-> profile_size,
                       none |-> r.none, scores |-> r.scores, raised |-> r.raised]
    /\ UNCHANGED store

\* sliding_delta_conformity(G, delta, ...)
SlidingDeltaConformity(delta, singleton) ==
    /\ res.kind = "none"
    /\ \E cps \in {SlidingPaths(G, delta, singleton)} :
           \E alphas \in AlphaLists, labels \in LabelLists, profile_size \in 1..2,
              attrs \in LabelValues, path_type \in PathTypes :
           \E r \in {SlidingScores(cps, temporal_snapshots_ids(G), delta, alphas, labels,
                                   profile_size, attrs, path_type)} :
               res' = [kind |-> "sliding", delta |-> delta, alphas |-> alphas,
                       tids |-> temporal_snapshots_ids(G),
                       calls |-> r.calls, seq |-> r.seq, raised |-> r.raised]
    /\ UNCHANGED store

NextConformity ==
    \/ GrowPathGraph
    \/ res.kind = "none" /\ \E start \in Snaps, delta \in Snaps, singleton \in BOOLEAN :
          DeltaConformity(start, delta, singleton)

SpecConformity == InitConformity /\ [][NextConformity]_vars

NextSliding ==
    \/ GrowPathGraph
    \/ res.kind = "none" /\ \E delta \in Snaps, singleton \in BOOLEAN :
          SlidingDeltaConformity(delta, singleton)

SpecSliding == InitConformity /\ [][NextSliding]_vars

\* ---------------------------------------------------------------- claims
AddCalled == last.op = "add_interaction"

\* an interval list as the data model wants it: s <= e in every interval, each
\* interval starting after the previous one ends
WellFormed(tl) ==
    /\ \A i \in 1..Len(tl) : tl[i][1] <= tl[i][2]
    /\ \A i \in 1..(Len(tl) - 1) : tl[i][2] < tl[i + 1][1]

\* C1: after calls that all return normally, each with e > t when e is given,
\* every timeline is a list of intervals [s,e], s <= e, each starting after
\* the previous one ends.
C1_TimelinesDisjoint ==
    (hist.normal /\ hist.spans) => \A p \in Pairs : WellFormed(adj[p])

\* C2: after calls that respect append-only ordering, with e > t when e is
\* given, temporal_snapshots_ids() is the sorted set of the snapshot ids some
\* interval of some timeline covers.
C2_SnapshotIdsAreCovered ==
    (hist.ordered /\ hist.spans) =>
        temporal_snapshots_ids(G) = SortSet(CoveredIds(G))

\* the tokens of edge p with operation op recorded at snapshot x; on an
\* undirected graph the pair may be written either way round
EdgeTokAt(g, p, op, x) ==
    /\ x \in DOMAIN g.time_to_edge
    /\ \E q \in Aliases(g, p[1], p[2]) : InSeq(g.time_to_edge[x], <<q[1], q[2], op>>)

\* C3: with edge removal, after calls that all return normally (here: each
\* with e > t when e is given), every interval start has a '+' token of its
\* edge, and every '+' token of an edge sits on the start of one of its
\* intervals.
C3_PlusTokensAreStarts ==
    (edge_removal /\ hist.normal /\ hist.spans) =>
        \A p \in Pairs :
            /\ \A i \in 1..Len(adj[p]) : EdgeTokAt(G, p, "+", adj[p][i][1])
            /\ \A x \in DOMAIN time_to_edge :
                   EdgeTokAt(G, p, "+", x) =>
                       \E i \in 1..Len(adj[p]) : adj[p][i][1] = x

StoreUnchanged ==
    /\ node' = node
    /\ adj' = adj
    /\ time_to_edge' = time_to_edge
    /\ snapshots' = snapshots

\* C4: a call that raises for a missing t or for a start before the start of
\* the last interval leaves nodes, timelines, ledger and snapshot index as
\* they were.
C4_FailedCallLeavesStore ==
    [][last'.raised \in {"NetworkXError", "ValueError"} => StoreUnchanged]_vars

\* C5: with edge removal, a call on an existing edge whose start is smaller
\* than the start of the edge's last interval raises ValueError.
C5_RemovableRejectsEarlyStart ==
    [][(edge_removal /\ StartsBeforeTail(G, last'.u, last'.v, last'.ht, last'.t))
          => last'.raised = "ValueError"]_vars

C5_Witness ==
    /\ edge_removal
    /\ AddCalled
    /\ last.raised = "ValueError"
    /\ last.t < Last(adj[<<last.u, last.v>>])[1]

\* C6 as claimed: without edge removal, a call on an existing edge whose start
\* is smaller than the start of the edge's last interval returns normally.
C6_AccumulativeIgnoresEarlyStart ==
    [][(~edge_removal /\ StartsBeforeTail(G, last'.u, last'.v, last'.ht, last'.t))
          => last'.raised = "none"]_vars

\* C6 as amended: without edge removal, a call on an existing edge whose start
\* is smaller than the start of the edge's last interval raises ValueError,
\* and the store is left as it was.
C6_AccumulativeRejectsEarlyStart ==
    [][(~edge_removal /\ StartsBeforeTail(G, last'.u, last'.v, last'.ht, last'.t))
          => (last'.raised = "ValueError" /\ StoreUnchanged)]_vars

C6_Witness ==
    /\ ~edge_removal
    /\ AddCalled
    /\ last.raised = "ValueError"
    /\ last.t < Last(adj[<<last.u, last.v>>])[1]

\* a call on an edge that is already there, returning normally, on a graph
\* without edge removal
AccumulativeReAdd ==
    /\ ~edge_removal
    /\ has_edge(G, last'.u, last'.v)
    /\ last'.raised = "none"

\* C7 as claimed: without edge removal, a normally returning call on an edge
\* already there leaves the edge's timeline, the snapshot index and the ledger
\* as they were.
C7_AccumulativeReAddIsNoOp ==
    [][AccumulativeReAdd =>
          /\ adj'[<<last'.u, last'.v>>] = adj[<<last'.u, last'.v>>]
          /\ snapshots' = snapshots
          /\ time_to_edge' = time_to_edge]_vars

\* C7 as amended: without edge removal, a normally returning call on an edge
\* already there leaves the ledger as it was and keeps the start of the
\* edge's first interval.
C7_AccumulativeReAddKeepsLedger ==
    [][AccumulativeReAdd =>
          /\ time_to_edge' = time_to_edge
          /\ adj'[<<last'.u, last'.v>>][1][1] = adj[<<last'.u, last'.v>>][1][1]]_vars

C7_Witness ==
    /\ ~edge_removal
    /\ AddCalled
    /\ last.raised = "none"
    /\ Len(adj[<<last.u, last.v>>]) > 1

\* C8: with edge removal, after calls that all return normally (here: each
\* with e > t when e is given), has_interaction(u,v,t) is true exactly when
\* the edge exists and one of its intervals covers t.
C8_PresenceIsCoverage ==
    (edge_removal /\ hist.normal /\ hist.spans) =>
        \A p \in Pairs, t \in Ends :
            has_interaction(G, p[1], p[2], t) <=>
                \E i \in 1..Len(adj[p]) : Covers(adj[p][i], t)

\* C9: with edge removal, for a <= b the graph H = time_slice(a,b) has the
\* interaction (u,v,t) exactly when a <= t <= b and the graph has it.
C9_SliceIsWindow ==
    (edge_removal /\ hist.normal /\ hist.spans /\ res.kind = "time_slice"
        /\ res.hto /\ res.t_from <= res.t_to) =>
        /\ res.raised = "none"
        /\ \A p \in Pairs, t \in Ends :
               has_interaction(res.H, p[1], p[2], t) <=>
                   (res.t_from <= t /\ t <= res.t_to /\ has_interaction(G, p[1], p[2], t))

\* C10: the events of stream_interactions(), replayed into a fresh graph as
\* parse_interactions does, give a graph with the same has_interaction(u,v,t)
\* for every u, v, t (here: for a graph with edge removal, built by calls
\* that all returned normally, each with e > t when e is given).
C10_ReplayRoundTrip ==
    (edge_removal /\ hist.normal /\ hist.spans /\ res.kind = "replay") =>
        /\ res.raised = "none"
        /\ \A p \in Pairs, t \in Ends :
               has_interaction(res.H, p[1], p[2], t) <=> has_interaction(G, p[1], p[2], t)

\* an event of stream_interactions() with the pair of an undirected edge
\* written smaller node first
Unoriented(ev) == IF ev[1] <= ev[2] THEN ev ELSE <<ev[2], ev[1], ev[3], ev[4]>>

\* C11: for an undirected graph g with edge removal, built by calls that all
\* returned normally (each with e > t when e is given), the graph h read back
\* from the snapshot lines of g has number_of_interactions() equal to g's and
\* the same events in stream_interactions() (here: the same set of events,
\* the pair of an edge taken either way round).
C11_SnapshotRoundTrip ==
    (edge_removal /\ ~directed /\ hist.normal /\ hist.spans
        /\ res.kind = "snapshots") =>
        /\ res.raised = "none"
        /\ number_of_interactions(res.H) = number_of_interactions(G)
        /\ {Unoriented(ev) : ev \in Range(stream_interactions(res.H))}
               = {Unoriented(ev) : ev \in Range(stream_interactions(G))}

\* the last stored snapshot of the span of the call just made on a graph with
\* edge removal: e - 1 when e is given, t otherwise
SpanEndOfCall == IF last'.he THEN last'.e - 1 ELSE last'.t

\* the call just made is on an existing edge of a graph with edge removal,
\* its span [s,x] has ls <= s <= le + 1 and x > le for the edge's last
\* interval [ls,le], and it returned normally
MergesIntoTail ==
    /\ edge_removal
    /\ last'.ht
    /\ has_edge(G, last'.u, last'.v)
    /\ LET tail == Last(adj[<<last'.u, last'.v>>])
       IN  /\ tail[1] <= last'.t
           /\ last'.t <= tail[2] + 1
           /\ SpanEndOfCall > tail[2]
    /\ last'.raised = "none"

\* C12: with edge removal, a normally returning call on an edge whose last
\* interval is [ls,le], with a span [s,x], ls <= s <= le+1 and x > le, keeps
\* the number of intervals of the edge, makes its last interval [ls,x] and
\* leaves number_of_interactions() as it was.
C12_TailMergeKeepsIntervalCount ==
    [][MergesIntoTail =>
          LET p == <<last'.u, last'.v>>
          IN  /\ Len(adj'[p]) = Len(adj[p])
              /\ Last(adj'[p]) = <<Last(adj[p])[1], SpanEndOfCall>>
              /\ number_of_interactions(G)' = number_of_interactions(G)]_vars

\* a call starting after the start of the tail returned normally and the tail
\* now ends where the span of the call ends
C12_Witness ==
    /\ edge_removal
    /\ AddCalled
    /\ last.raised = "none"
    /\ last.he
    /\ LET tail == Last(adj[<<last.u, last.v>>])
       IN  tail[1] < last.t /\ tail[2] = last.e - 1 /\ last.t <= last.e - 1

\* C13: on an undirected graph, in every state, the two adjacency entries of
\* an edge hold the same interval list and has_interaction(u,v,t) equals
\* has_interaction(v,u,t) for all u, v, t.
C13_UndirectedEntriesAgree ==
    ~directed =>
        \A u \in Nodes, v \in Nodes :
            /\ adj[<<u, v>>] = adj[<<v, u>>]
            /\ \A t \in Ends :
                   has_interaction(G, u, v, t) <=> has_interaction(G, v, u, t)

\* an undirected edge between two nodes whose timeline was grown by calls
\* naming the endpoints in both orders
C13_Witness ==
    /\ ~directed
    /\ AddCalled
    /\ last.u # last.v
    /\ last.raised = "none"
    /\ Len(adj[<<last.u, last.v>>]) = 2
    /\ HasTok(time_to_edge, adj[<<last.u, last.v>>][1][1], <<last.v, last.u, "+">>)

\* the snapshot of every interaction of path p is in [lo,hi]
WithinWindow(p, lo, hi) == \A i \in 1..Len(p) : lo <= p[i][3] /\ p[i][3] <= hi

\* C14: every path time_respecting_paths(G,u,v,start,end) returns is a
\* non-empty list of triples (from,to,snapshot): the first 'from' is u, the
\* last 'to' is v when v is given, the 'to' of each triple is the 'from' of
\* the next, the snapshots do not decrease and lie in [start,end] (when
\* given), and G.has_interaction(from,to,snapshot) holds for every triple.
C14_PathsAreWellFormed ==
    (res.kind = "paths" /\ res.raised = "none") =>
        \A p \in res.paths :
            /\ Len(p) > 0
            /\ p[1][1] = res.u
            /\ (res.hv => Last(p)[2] = res.v)
            /\ \A i \in 1..(Len(p) - 1) : p[i][2] = p[i + 1][1] /\ p[i][3] <= p[i + 1][3]
            /\ (res.hs /\ res.he) => WithinWindow(p, res.start, res.end)
            /\ \A i \in 1..Len(p) : has_interaction(G, p[i][1], p[i][2], p[i][3])

\* the chains of interactions of g that leave node x, with strictly
\* increasing snapshots in [lo,hi]
RECURSIVE ChainsFrom(_, _, _, _)
ChainsFrom(g, x, lo, hi) ==
    UNION {LET hop == <<x, m, t>>
           IN  {<<hop>>} \cup {<<hop>> \o c : c \in ChainsFrom(g, m, t + 1, hi)}
           : <<m, t>> \in {q \in PathNodes \X (lo..hi) : has_interaction(g, x, q[1], q[2])}}

\* C15: for u present at start, every chain of interactions (u,x1,t1),
\* (x1,x2,t2), ..., (xk-1,v,tk) of G with start <= t1 < t2 < ... < tk <= end
\* is among the paths time_respecting_paths(G,u,v,start,end) returns.
C15_PathsAreComplete ==
    (res.kind = "paths" /\ res.raised = "none" /\ res.hv /\ res.hs /\ res.he
        /\ has_node(G, res.u, TRUE, res.start)) =>
        \A c \in ChainsFrom(G, res.u, res.start, res.end) :
            Last(c)[2] = res.v => c \in res.paths

\* C16: in the mapping all_time_respecting_paths(G,start,end) returns, every
\* path stored under (u,v) has u as the 'from' of its first interaction and v
\* as the 'to' of its last.
C16_PathsAreFiledByEndpoints ==
    (res.kind = "all_paths" /\ res.raised = "none") =>
        \A k \in DOMAIN res.res :
            \A p \in res.res[k] : p[1][1] = k[1] /\ Last(p)[2] = k[2]

\* the paths of ps for which val is smallest; val maps each path of ps to an
\* integer
Minimal(ps, val) == {p \in ps : \A q \in ps : val[p] <= val[q]}

LengthOf(ps) == [p \in ps |-> path_length(p)]

DurationOf(ps) == [p \in ps |-> path_duration(p)]

ReachOf(ps) == [p \in ps |-> Last(p)[3]]

\* C17: for a non-empty list of paths, 'shortest' is exactly the set of the
\* paths of minimum length, 'fastest' the set of those of minimum duration
\* (last snapshot minus first), 'foremost' the set of those of minimum last
\* snapshot, and none of the three is empty.
C17_PrimaryCategoriesKeepTies ==
    res.kind = "annotated" =>
        LET ps == Range(res.paths)
            a == res.annotated
        IN  /\ Range(a.shortest) = Minimal(ps, LengthOf(ps))
            /\ Range(a.fastest) = Minimal(ps, DurationOf(ps))
            /\ Range(a.foremost) = Minimal(ps, ReachOf(ps))
            /\ Len(a.shortest) > 0 /\ Len(a.fastest) > 0 /\ Len(a.foremost) > 0

\* a list with two different shortest paths and a longer one
C17_Witness ==
    /\ res.kind = "annotated"
    /\ Cardinality(Range(res.annotated.shortest)) = 2
    /\ Cardinality(Range(res.paths)) = 3

\* C18: for a non-empty list of paths, 'fastest_shortest' is exactly the set
\* of the paths of minimum duration among 'shortest' and 'shortest_fastest'
\* the set of the paths of minimum length among 'fastest'.
C18_SecondaryCategoriesRefinePrimary ==
    res.kind = "annotated" =>
        LET a == res.annotated
            sh == Range(a.shortest)
            fa == Range(a.fastest)
        IN  /\ Range(a.fastest_shortest) = Minimal(sh, DurationOf(sh))
            /\ Range(a.fastest_shortest) \subseteq sh
            /\ Range(a.shortest_fastest) = Minimal(fa, LengthOf(fa))
            /\ Range(a.shortest_fastest) \subseteq fa

\* two shortest paths of different durations, two fastest paths of different
\* lengths
C18_Witness ==
    /\ res.kind = "annotated"
    /\ Cardinality(Range(res.annotated.shortest)) = 2
    /\ Cardinality(Range(res.annotated.fastest_shortest)) = 1
    /\ Cardinality(Range(res.annotated.fastest)) = 2
    /\ Cardinality(Range(res.annotated.shortest_fastest)) = 1

\* C19: every conformity score returned by delta_conformity, for every node
\* present at start, every damping factor and every label profile, lies in
\* [-1, 1].
C19_ScoresWithinUnitInterval ==
    (res.kind = "conformity" /\ res.raised = "none" /\ ~res.none) =>
        \A q \in DOMAIN res.scores :
            FLeq(<<-1, 1>>, res.scores[q]) /\ FLeq(res.scores[q], <<1, 1>>)

\* C20: sliding_delta_conformity invokes delta_conformity exactly once for
\* each snapshot id t with t + delta <= last id, in order, and for no other t;
\* every recorded score is paired with t + delta for an invoked t.
C20_SlidingInvokesEveryWindow ==
    (res.kind = "sliding" /\ res.raised = "none") =>
        /\ res.calls = SelectSeq(res.tids, LAMBDA t : t + res.delta <= Last(res.tids))
        /\ \A q \in DOMAIN res.seq : \A i \in 1..Len(res.seq[q]) :
               \E t \in Range(res.calls) : res.seq[q][i][1] = t + res.delta

\* C21: without edge removal, has_interaction(u,v,t) is true exactly when the
\* edge (u,v) is there and t lies between the start of its first interval and
\* the largest snapshot id of the graph, both included.
C21_AccumulativePresence ==
    ~edge_removal =>
        \A p \in Pairs, t \in -1..(MaxT + 2) :
            has_interaction(G, p[1], p[2], t) <=>
                /\ adj[p] # <<>>
                /\ adj[p][1][1] <= t
                /\ \E m \in DOMAIN snapshots : t <= m

\* an edge is present at a snapshot that follows its last interval
C21_Witness ==
    /\ ~edge_removal
    /\ \E p \in Pairs, t \in Snaps :
           /\ has_interaction(G, p[1], p[2], t)
           /\ Last(adj[p])[2] < t
           /\ ~has_interaction(G, p[1], p[2], t + 1)

\* C22: on a DynGraph, for every snapshot id t, interactions_per_snapshots(t)
\* equals the number of interactions present at t, number_of_interactions(t=t).
C22_SnapshotIndexCountsInteractions ==
    ~directed =>
        \A t \in DOMAIN snapshots :
            interactions_per_snapshots(G, t) = <<number_of_interactions_at(G, t), 1>>

\* C23: temporal_dag goes through the snapshot ids t of G with
\* start <= t <= end, in ascending order, and through no other; the last
\* snapshot id is among them when end is None or is the last id.
C23_DagExpandsEveryIdOfWindow ==
    (res.kind = "dag" /\ res.raised = "none" /\ Len(res.tids) > 0) =>
        LET lo == IF res.hs THEN res.start ELSE res.tids[1]
            hi == IF res.he THEN res.end ELSE Last(res.tids)
        IN  res.ids = SelectSeq(res.tids, LAMBDA t : lo <= t /\ t <= hi)

\* C24: every edge of the DAG goes from a temporal copy to a different copy
\* whose snapshot is not earlier; no copy has an edge to itself.
C24_DagIsAcyclic ==
    (res.kind = "dag" /\ res.raised = "none") =>
        \A ed \in res.edges : ed[1] # ed[2] /\ ed[1][2] <= ed[2][2]

\* C25: with edge removal, after calls that all return normally (here: each
\* with e > t when e is given), every '-' token of an edge recorded at
\* snapshot x closes an interval of the edge: some interval of its timeline
\* ends at x - 1.
C25_NoStaleMinusToken ==
    (edge_removal /\ hist.normal /\ hist.spans) =>
        \A p \in Pairs : \A x \in DOMAIN time_to_edge :
            EdgeTokAt(G, p, "-", x) =>
                \E i \in 1..Len(adj[p]) : adj[p][i][2] = x - 1

\* C26: a call with t given, e > t when e is given, and t not smaller than
\* the start of the last interval of the edge returns normally, in every
\* reachable state.
C26_OrderedCallReturnsNormally ==
    [][(/\ last'.op = "add_interaction"
        /\ last'.ht
        /\ (last'.he => last'.e > last'.t)
        /\ ~StartsBeforeTail(G, last'.u, last'.v, last'.ht, last'.t))
          => last'.raised = "none"]_vars

\* the boundary events of a ledger, the pair of each edge taken either way
\* round
UnorientedEvents(g) == {Unoriented(ev) : ev \in Range(stream_interactions(g))}

\* the call add_interaction(v,u,t,e) made in place of the call
\* add_interaction(u,v,t,e) just made
SwappedCall ==
    add_interaction(G, last'.v, last'.u, last'.ht, last'.t, last'.he, last'.e)

\* C27: for an undirected graph the order of the two endpoints does not
\* matter: the call add_interaction(u,v,t,e) just made and the call
\* add_interaction(v,u,t,e) made in its place give the same timelines, the
\* same snapshot index and the same boundary events up to the orientation of
\* the pair inside each token (here: when every call so far returned
\* normally with e > t when e is given, and the swapped call returns normally
\* too).
C27_EndpointOrderIrrelevant ==
    [][(/\ ~directed
        /\ last'.op = "add_interaction"
        /\ hist'.normal
        /\ hist'.spans
        /\ SwappedCall.raised = "none") =>
          /\ SwappedCall.G.adj = adj'
          /\ SwappedCall.G.snapshots = snapshots'
          /\ UnorientedEvents(SwappedCall.G) = UnorientedEvents(G')]_vars

\* C28: for a directed graph, interactions() with no nbunch lists every
\* directed edge u->v that has been added exactly once, as (source, target),
\* and interactions(t=t) lists exactly the directed edges present at t.
C28_DirectedInteractionsListEveryEdge ==
    directed =>
        /\ \A p \in Pairs :
               has_edge(G, p[1], p[2]) =>
                   Cardinality({k \in 1..Len(interactions(G)) : interactions(G)[k] = p}) = 1
        /\ \A t \in Snaps :
               Range(interactions_at(G, t))
                   = {p \in Pairs : has_interaction(G, p[1], p[2], t)}

\* C29: for a directed graph, time_slice keeps the direction of the edges:
\* for H = G.time_slice(a,b), H.has_interaction(u,v,t) implies
\* G.has_interaction(u,v,t) for all u, v, t.
C29_SlicePreservesDirection ==
    (directed /\ res.kind = "time_slice" /\ res.raised = "none") =>
        \A p \in Pairs, t \in -1..(MaxT + 2) :
            has_interaction(res.H, p[1], p[2], t) => has_interaction(G, p[1], p[2], t)

\* C30: a call with a malformed span (e given and e <= t) is rejected with
\* an error and changes no timeline, and no state holds an interval [s,x]
\* with x < s.
C30_MalformedSpanRejected ==
    [][/\ (/\ last'.op = "add_interaction"
           /\ last'.ht
           /\ last'.he
           /\ last'.e <= last'.t) => (last'.raised # "none" /\ adj' = adj)
       /\ \A p \in Pairs : \A i \in 1..Len(adj'[p]) : adj'[p][i][1] <= adj'[p][i][2]]_vars

\* Supporting fact for C14: the paths that are not empty are well-formed.
Aux_NonEmptyPathsAreWellFormed ==
    (res.kind = "paths" /\ res.raised = "none") =>
        \A p \in res.paths : Len(p) > 0 =>
            /\ p[1][1] = res.u
            /\ (res.hv => Last(p)[2] = res.v)
            /\ \A i \in 1..(Len(p) - 1) : p[i][2] = p[i + 1][1] /\ p[i][3] <= p[i + 1][3]
            /\ (res.hs /\ res.he) => WithinWindow(p, res.start, res.end)
            /\ \A i \in 1..Len(p) : has_interaction(G, p[i][1], p[i][2], p[i][3])

\* Supporting fact for C2: when no call raised, the snapshot ids are the covered ids.
Aux_SnapshotIdsAreCoveredIfNormal == (hist.normal /\ hist.spans) => temporal_snapshots_ids(G) = SortSet(CoveredIds(G))

\* Supporting fact for C8: on timelines that are disjoint and increasing the
\* range test hides nothing.
Aux_PresenceIsCoverageIfDisjoint == (edge_removal /\ hist.normal /\ hist.spans /\ \A p \in Pairs : WellFormed(adj[p])) =>
        \A p \in Pairs, t \in Ends :
            has_interaction(G, p[1], p[2], t) <=>
                \E i \in 1..Len(adj[p]) : Covers(adj[p][i], t)

\* Supporting fact for C19: when no two damping factors are written under the
\* same "%.2f" key, every score lies in [-1, 1].
Aux_DistinctKeysScoresWithinUnitInterval ==
    (/\ res.kind = "conformity" /\ res.raised = "none" /\ ~res.none
     /\ \A i, j \in 1..Len(res.alphas) :
            Format2(res.alphas[i]) = Format2(res.alphas[j]) => i = j) =>
        \A q \in DOMAIN res.scores :
            FLeq(<<-1, 1>>, res.scores[q]) /\ FLeq(res.scores[q], <<1, 1>>)

\* Supporting fact for C20: the invocations are those of the snapshot ids t
\* with t + delta strictly below the last id, and every recorded score is
\* paired with t + delta for an invoked t.
Aux_SlidingInvokesStrictWindows ==
    (res.kind = "sliding" /\ res.raised = "none") =>
        /\ res.calls = SelectSeq(res.tids, LAMBDA t : t + res.delta < Last(res.tids))
        /\ \A q \in DOMAIN res.seq : \A i \in 1..Len(res.seq[q]) :
               \E t \in Range(res.calls) : res.seq[q][i][1] = t + res.delta

====
